---- MODULE Spec2Model ----
(***************************************************************************)
(* Model of the forecasting backend of Inventarios-pronostico:             *)
(*   backend/models.py  ForecastModels (metrics, fitters, ensemble run,    *)
(*                      forecast generation)                               *)
(*   backend/app.py     session cache, background worker, HTTP handlers    *)
(*                                                                         *)
(* Floating point values are modelled as tagged records: a finite value    *)
(* carries an exact integer, NaN and +/-inf are values of their own.       *)
(* Observations are integers; the fields of a metrics record are integers  *)
(* counting hundredths (the code rounds every metric to 2 decimals).       *)
(***************************************************************************)
EXTENDS Integers, Sequences, FiniteSets, TLC

VARIABLES
    actual,         \* calculate_metrics: argument `actual`
    predicted,      \* calculate_metrics: argument `predicted`
    metrics,        \* calculate_metrics: outcome of the call
    fitted,         \* what each fitter does on the series: result (with its MAPE), None, raise
    pos,            \* run_all_models: position of the loop in the registry
    calls,          \* run_all_models: the fitters invoked so far, in order
    results,        \* run_all_models: the list `results`
    run_state,      \* run_all_models: "running", "returned", "raised", then "ranked"
    sorted_results, \* the ranking of the returned list (sorted by metrics.mape)
    model_name,     \* generate_forecast: argument `model_name`
    data,           \* generate_forecast: argument `data` (the historical series)
    periods,        \* generate_forecast: argument `periods` (the horizon)
    native_ok,      \* whether the library's re-fit and forecast of the family succeed on data
    forecast,       \* generate_forecast: outcome of the call
    now,            \* app: the clock datetime.now() reads (session ids are timestamps)
    results_cache,  \* app: the dict results_cache, session id -> session record
    threads,        \* app: the background threads started by /api/process
    response,       \* app: the last HTTP response sent
    instance,       \* the ForecastModels object: self.models, self.model_descriptions
    series,         \* sma_model: argument `data`
    window,         \* sma_model: argument `window`
    history,        \* sma_model: what the calls made so far returned, in order
    family,         \* the grid-search fitter called (its registry name)
    candidates,     \* what the library does for each candidate of that fitter's grid
    seasonal_periods, \* holt_winters_model: argument `seasonal_periods`
    fit_outcome     \* outcome of the call of that fitter

metricsVars == <<actual, predicted, metrics>>
ensembleVars == <<fitted, pos, calls, results, run_state, sorted_results>>
forecastVars == <<model_name, data, periods, native_ok, forecast>>
appVars == <<now, results_cache, threads, response>>
smaVars == <<instance, series, window, history>>
searchVars == <<family, candidates, seasonal_periods, fit_outcome>>
vars == <<metricsVars, ensembleVars, forecastVars, appVars, smaVars, searchVars>>

(***************************************************************************)
(* Bounds of the model                                                     *)
(***************************************************************************)
MaxPairs == 3       \* longest actual/predicted sequence handed to calculate_metrics
MaxObs == 5         \* longest historical series handed to generate_forecast
MaxPeriods == 3     \* largest forecast horizon
MaxClock == 1       \* the application clock takes the values 0..MaxClock
MaxThreads == 2     \* background threads started in one run of the application
MaxFitted == 2      \* application runs: registry entries whose fitter may return a result
MaxSeries == 6      \* longest series handed to sma_model
MaxCalls == 2       \* calls of sma_model on one ForecastModels object
MaxFits == 2        \* candidates of one grid search that the library manages to fit

(***************************************************************************)
(* Floating point values                                                   *)
(***************************************************************************)
NaN == [tag |-> "nan", v |-> 0]
PosInf == [tag |-> "inf", v |-> 1]
NegInf == [tag |-> "inf", v |-> -1]
Fin(x) == [tag |-> "fin", v |-> x]

IsNaN(x) == x.tag = "nan"
IsInf(x) == x.tag = "inf"
IsFin(x) == x.tag = "fin"

Abs(x) == IF x < 0 THEN -x ELSE x

\* round(): nearest integer of the rational p/q (p >= 0, q > 0), ties to even
RoundHalfEven(p, q) ==
    LET f == p \div q
        r == p % q
    IN  IF 2 * r < q THEN f
        ELSE IF 2 * r > q THEN f + 1
        ELSE IF f % 2 = 0 THEN f ELSE f + 1

\* largest r in lo..hi with r*r <= x (bisection; hi*hi fits a 32-bit integer)
RECURSIVE ISqrtIn(_, _, _)
ISqrtIn(x, lo, hi) ==
    IF lo >= hi THEN lo
    ELSE LET mid == (lo + hi + 1) \div 2
         IN  IF mid * mid <= x THEN ISqrtIn(x, mid, hi) ELSE ISqrtIn(x, lo, mid - 1)

ISqrt(x) == ISqrtIn(x, 0, IF x < 46340 THEN x ELSE 46340)

\* faulty variant: the square root is left out
SqrtHundredths_NoRoot(s, n) == RoundHalfEven(100 * s, n)

\* np.sqrt(s/n) rounded to 2 decimals, in hundredths:
\* floor(100*sqrt(s/n) + 1/2) = floor((floor(sqrt(40000*s/n)) + 1) / 2)
SqrtHundredths(s, n) == (ISqrt((40000 * s) \div n) + 1) \div 2

\* the outcome of a call: not made yet, raised, or returned a value
Pending == [state |-> "pending"]
RaisedOutcome == [state |-> "raised"]
Returned(m) == [state |-> "returned", value |-> m]

(***************************************************************************)
(* ForecastModels.calculate_metrics                                        *)
(***************************************************************************)
\* faulty variant: only `actual` is tested for NaN
valid_mask_ActualOnly(a, p) == [i \in 1..Len(a) |-> ~IsNaN(a[i])]

\* valid_mask = ~np.isnan(actual) & ~np.isnan(predicted)
valid_mask(a, p) == [i \in 1..Len(a) |-> ~IsNaN(a[i]) /\ ~IsNaN(p[i])]

\* x[valid_mask]: the entries of x the mask keeps, in order
RECURSIVE Masked(_, _)
Masked(x, mask) ==
    IF x = <<>> THEN <<>>
    ELSE LET rest == Masked(Tail(x), Tail(mask))
         IN  IF Head(mask) THEN <<Head(x)>> \o rest ELSE rest

RECURSIVE SumAbsErr(_, _)
SumAbsErr(a, p) ==
    IF a = <<>> THEN 0
    ELSE Abs(Head(a).v - Head(p).v) + SumAbsErr(Tail(a), Tail(p))

RECURSIVE SumSqErr(_, _)
SumSqErr(a, p) ==
    IF a = <<>> THEN 0
    ELSE (Head(a).v - Head(p).v) * (Head(a).v - Head(p).v) + SumSqErr(Tail(a), Tail(p))

\* sum of |(a_i - p_i) / a_i| as an exact fraction <<numerator, denominator>>;
\* only evaluated when no a_i is zero
RECURSIVE SumAbsPctErr(_, _)
SumAbsPctErr(a, p) ==
    IF a = <<>> THEN <<0, 1>>
    ELSE LET rest == SumAbsPctErr(Tail(a), Tail(p))
             d == Abs(Head(a).v - Head(p).v)
             m == Abs(Head(a).v)
         IN  <<rest[1] * m + d * rest[2], rest[2] * m>>

\* sklearn's mean_absolute_error / mean_squared_error validate their input and
\* raise ValueError ("Input contains infinity") when a value is not finite
ContainsInf(x) == \E i \in 1..Len(x) : IsInf(x[i])

\* the call raises: the boolean mask does not fit an array of another length,
\* or an infinite value reaches the sklearn metric functions
CalculateMetricsRaises(a, p) ==
    \/ Len(a) # Len(p)
    \/ LET mask == valid_mask(a, p)
       IN  ContainsInf(Masked(a, mask)) \/ ContainsInf(Masked(p, mask))

\* np.mean(np.abs((actual_valid - predicted_valid) / actual_valid)) * 100, then
\* NaN if infinite: a zero actual divides to inf (or to NaN for 0/0), the mean
\* is then inf or NaN, and the outcome is NaN either way
Mape(av, pv) ==
    IF \E i \in 1..Len(av) : av[i].v = 0 THEN NaN
    ELSE LET s == SumAbsPctErr(av, pv)
         IN  Fin(RoundHalfEven(10000 * s[1], s[2] * Len(av)))

\* the returned dict (fields in hundredths); defined when the call does not raise
calculate_metrics(a, p) ==
    LET mask == valid_mask(a, p)
        actual_valid == Masked(a, mask)
        predicted_valid == Masked(p, mask)
        n == Len(actual_valid)
    IN  IF n = 0
        THEN [mae |-> NaN, mse |-> NaN, rmse |-> NaN, mape |-> NaN]
        ELSE [mae  |-> Fin(RoundHalfEven(100 * SumAbsErr(actual_valid, predicted_valid), n)),
              mse  |-> Fin(RoundHalfEven(100 * SumSqErr(actual_valid, predicted_valid), n)),
              rmse |-> Fin(SqrtHundredths(SumSqErr(actual_valid, predicted_valid), n)),
              mape |-> Mape(actual_valid, predicted_valid)]

(***************************************************************************)
(* Model registry: ForecastModels.__init__ (self.models, insertion order)  *)
(***************************************************************************)
models == << "Media Movil Simple (SMA)",
             "Suavizado Exponencial Simple (SES)",
             "Holt-Winters (Triple Exponencial)",
             "ARIMA (AutoRegressive Integrated Moving Average)",
             "Regresion Lineal",
             "Random Forest" >>

ModelNames == {models[i] : i \in 1..Len(models)}

\* MAPE values (hundredths) a fitter may report: undefined, 5.00, 12.00
MapeValues == {NaN, Fin(500), Fin(1200)}

\* a fitter returns a result dict, returns None, or raises
FitterNone == [kind |-> "none", mape |-> NaN]
FitterRaise == [kind |-> "raise", mape |-> NaN]
FitterResult(m) == [kind |-> "result", mape |-> m]
FitterOutcomes == {FitterNone, FitterRaise} \cup {FitterResult(m) : m \in MapeValues}

\* the dict a fitter returns: its registry name and its metrics
FitResult(name, m) == [name |-> name, metrics |-> [mape |-> m]]

(***************************************************************************)
(* ForecastModels.run_all_models                                           *)
(***************************************************************************)
\* faulty variant: no try/except around the call of the fitter
RunModelIteration_NoExcept(res, name, outcome) ==
    CASE outcome.kind = "result" ->
            [results |-> Append(res, FitResult(name, outcome.mape)), raised |-> FALSE]
      [] outcome.kind = "none" -> [results |-> res, raised |-> FALSE]
      [] outcome.kind = "raise" -> [results |-> res, raised |-> TRUE]

\* one iteration of the loop: call the fitter inside try; append a truthy
\* result; `except Exception` swallows a raise
RunModelIteration(res, name, outcome) ==
    CASE outcome.kind = "result" ->
            [results |-> Append(res, FitResult(name, outcome.mape)), raised |-> FALSE]
      [] outcome.kind = "none" -> [results |-> res, raised |-> FALSE]
      [] outcome.kind = "raise" -> [results |-> res, raised |-> FALSE]

\* the whole loop, from registry position i on
RECURSIVE RunAllFrom(_, _, _)
RunAllFrom(fit, i, res) ==
    IF i > Len(models) THEN [results |-> res, raised |-> FALSE]
    ELSE LET it == RunModelIteration(res, models[i], fit[models[i]])
         IN  IF it.raised THEN it ELSE RunAllFrom(fit, i + 1, it.results)

run_all_models(fit) == RunAllFrom(fit, 1, <<>>)

(***************************************************************************)
(* sorted(results, key=lambda x: x['metrics']['mape']) in run_forecast_models: *)
(* CPython's list sort on fewer than 64 elements (one natural run, then    *)
(* binary insertion), every comparison being the float `<`                 *)
(***************************************************************************)
\* x < y on floats: False whenever an operand is NaN; -inf < finite < +inf
FloatLt(x, y) ==
    CASE IsNaN(x) \/ IsNaN(y) -> FALSE
      [] IsFin(x) /\ IsFin(y) -> x.v < y.v
      [] IsInf(x) /\ IsInf(y) -> x.v < y.v
      [] IsInf(x) -> x.v < 0
      [] OTHER -> y.v > 0

KeyLt(x, y) == FloatLt(x.metrics.mape, y.metrics.mape)

RECURSIVE RunEndDescending(_, _)
RunEndDescending(a, n) ==
    IF n < Len(a) /\ KeyLt(a[n + 1], a[n]) THEN RunEndDescending(a, n + 1) ELSE n

RECURSIVE RunEndAscending(_, _)
RunEndAscending(a, n) ==
    IF n < Len(a) /\ ~KeyLt(a[n + 1], a[n]) THEN RunEndAscending(a, n + 1) ELSE n

\* count_run: length of the run at the start of a (Len(a) >= 2), and whether
\* it is strictly descending
count_run(a) ==
    IF KeyLt(a[2], a[1])
    THEN [n |-> RunEndDescending(a, 2), descending |-> TRUE]
    ELSE [n |-> RunEndAscending(a, 2), descending |-> FALSE]

\* reverse_slice: the first n entries reversed
ReverseSlice(a, n) == [i \in 1..Len(a) |-> IF i <= n THEN a[n + 1 - i] ELSE a[i]]

\* binarysort's search: l and r close in on the insertion point of pivot
RECURSIVE BinarySearch(_, _, _, _)
BinarySearch(a, pivot, l, r) ==
    IF l >= r THEN l
    ELSE LET p == l + ((r - l) \div 2)
         IN  IF KeyLt(pivot, a[p]) THEN BinarySearch(a, pivot, l, p)
             ELSE BinarySearch(a, pivot, p + 1, r)

\* binarysort: a[1..start-1] is sorted; insert a[start], a[start+1], ...
RECURSIVE binarysort(_, _)
binarysort(a, start) ==
    IF start > Len(a) THEN a
    ELSE LET l == BinarySearch(a, a[start], 1, start)
             moved == SubSeq(a, 1, l - 1) \o <<a[start]>> \o SubSeq(a, l, start - 1)
                         \o SubSeq(a, start + 1, Len(a))
         IN  binarysort(moved, start + 1)

SortedByMape(a) ==
    IF Len(a) < 2 THEN a
    ELSE LET run == count_run(a)
             b == IF run.descending THEN ReverseSlice(a, run.n) ELSE a
         IN  binarysort(b, run.n + 1)

(***************************************************************************)
(* ForecastModels.generate_forecast                                        *)
(***************************************************************************)
RECURSIVE SumSeq(_)
SumSeq(x) == IF x = <<>> THEN 0 ELSE Head(x) + SumSeq(Tail(x))

\* np.mean(x), kept exact as sum and count
Mean(x) == [tag |-> "mean", sum |-> SumSeq(x), n |-> Len(x)]

\* data[-k:]
LastValues(x, k) == IF Len(x) <= k THEN x ELSE SubSeq(x, Len(x) - k + 1, Len(x))

\* [x] * n
Repeat(x, n) == [i \in 1..n |-> x]

\* model.forecast(periods) / model.predict(X_future): the library's values for
\* the steps 1..periods ahead
NativeForecast(n) == [i \in 1..n |-> [tag |-> "native", step |-> i]]

ForecastReturn(f, name, n) ==
    [raised |-> FALSE, forecast |-> f, model_name |-> name, periods |-> n, error |-> FALSE]

\* faulty variant: the handler lets the exception go on to the caller
ForecastFallback_Reraise(name, x, n) ==
    [raised |-> TRUE, forecast |-> <<>>, model_name |-> name, periods |-> n, error |-> TRUE]

\* except Exception: the mean of the whole series, with the reason in 'error'
ForecastFallback(name, x, n) ==
    [raised |-> FALSE, forecast |-> Repeat(Mean(x), n), model_name |-> name,
     periods |-> n, error |-> TRUE]

\* a re-fit or forecast that raises inside the try block lands in the handler
NativeOrFallback(name, x, n, ok) ==
    IF ok THEN ForecastReturn(NativeForecast(n), name, n) ELSE ForecastFallback(name, x, n)

generate_forecast(name, x, n, ok) ==
    CASE name = models[1] -> ForecastReturn(Repeat(Mean(LastValues(x, 3)), n), name, n)
      [] name = models[2] -> NativeOrFallback(name, x, n, ok)
      [] name = models[3] -> NativeOrFallback(name, x, n, ok)
      [] name = models[4] -> NativeOrFallback(name, x, n, ok)
      [] name = models[5] -> NativeOrFallback(name, x, n, ok)
      [] name = models[6] -> NativeOrFallback(name, x, n, ok)
      [] OTHER -> ForecastReturn(Repeat(Mean(x), n), name, n)

(***************************************************************************)
(* ForecastModels.__init__ and ForecastModels.sma_model. A prediction is   *)
(* np.mean of w observations: it is kept exact as the sum of the window,   *)
(* the list of predictions carrying the divisor w (`scale`).               *)
(***************************************************************************)
\* the object after construction: the registry and the description of each family
ForecastModels ==
    [models |-> models,
     model_descriptions |-> [n \in ModelNames |-> [parameters_of |-> n]]]

DefaultWindow == 3  \* def sma_model(self, data, window=3)
WindowMin == 3      \* for w in range(3, 13)
WindowMax == 12

\* the list built by the loop over range(len(data)): NaN for i < w, else
\* np.mean(data[i-w:i]); for w <= 0 the slice is empty and its mean is NaN
WindowPredictions(x, w) ==
    [scale |-> IF w > 0 THEN w ELSE 1,
     sums  |-> [i \in 1..Len(x) |->
                  IF w <= 0 \/ i - 1 < w THEN NaN
                  ELSE Fin(SumSeq(SubSeq(x, i - w, i - 1)))]]

\* calculate_metrics(data, np.array(preds)) for predictions sums[i]/scale:
\* both sides of every pair are multiplied by scale, which leaves MAPE as it
\* is and multiplies the absolute errors by scale
MetricsOfPredictions(x, preds) ==
    LET k == preds.scale
        a == [i \in 1..Len(x) |-> Fin(k * x[i])]
        mask == valid_mask(a, preds.sums)
        actual_valid == Masked(a, mask)
        predicted_valid == Masked(preds.sums, mask)
        n == Len(actual_valid)
    IN  IF n = 0
        THEN [mae |-> NaN, mse |-> NaN, rmse |-> NaN, mape |-> NaN]
        ELSE [mae  |-> Fin(RoundHalfEven(100 * SumAbsErr(actual_valid, predicted_valid), k * n)),
              mse  |-> Fin(RoundHalfEven(100 * SumSqErr(actual_valid, predicted_valid), k * k * n)),
              rmse |-> Fin(SqrtHundredths(SumSqErr(actual_valid, predicted_valid), k * k * n)),
              mape |-> Mape(actual_valid, predicted_valid)]

\* faulty variant: a window replaces the best one when it is not worse
SmaImproves_NotWorse(m, best) == ~IsNaN(m.mape) /\ ~FloatLt(best.best_mape, m.mape)

\* if not np.isnan(metrics['mape']) and metrics['mape'] < best_mape
SmaImproves(m, best) == ~IsNaN(m.mape) /\ FloatLt(m.mape, best.best_mape)

\* the loop `for w in range(3, 13)` from window w on
RECURSIVE SmaSearch(_, _, _)
SmaSearch(x, w, best) ==
    IF w > WindowMax THEN best
    ELSE LET preds == WindowPredictions(x, w)
             m == MetricsOfPredictions(x, preds)
         IN  SmaSearch(x, w + 1,
                 IF SmaImproves(m, best)
                 THEN [best_mape |-> m.mape, best_window |-> w, best_predictions |-> preds]
                 ELSE best)

\* faulty variant: without a usable window the last window scanned is reported
sma_model_LastWindow(self, x, w) ==
    LET best == SmaSearch(x, WindowMin,
                    [best_mape |-> PosInf, best_window |-> WindowMax,
                     best_predictions |-> WindowPredictions(x, WindowMax)])
    IN  [name |-> models[1],
         predictions |-> best.best_predictions,
         metrics |-> MetricsOfPredictions(x, best.best_predictions),
         parameters |-> [window |-> best.best_window],
         description |-> self.model_descriptions[models[1]]]

\* the dict sma_model returns
sma_model(self, x, w) ==
    LET best == SmaSearch(x, WindowMin,
                    [best_mape |-> PosInf, best_window |-> w,
                     best_predictions |-> WindowPredictions(x, w)])
    IN  [name |-> models[1],
         predictions |-> best.best_predictions,
         metrics |-> MetricsOfPredictions(x, best.best_predictions),
         parameters |-> [window |-> best.best_window],
         description |-> self.model_descriptions[models[1]]]

(***************************************************************************)
(* The grid-search fitters ses_model, holt_winters_model, arima_model and  *)
(* random_forest_model. What the library does with a candidate on the      *)
(* series (the fit raises, or it yields fitted values whose MAPE is m) is  *)
(* given by `cand`, one entry per candidate in the order of the grid.      *)
(***************************************************************************)
\* faulty variant: the MAPE is returned as computed, without rounding
RoundedMape_Unrounded(raw) == raw

\* 'mape': round(mape, 2) if not np.isnan(mape) else float('nan'): from the
\* MAPE in thousandths of a percent to hundredths
RoundedMape(raw) == IF IsNaN(raw) THEN NaN ELSE Fin(RoundHalfEven(raw.v, 10))

\* `raw` is the MAPE of the fitted values before calculate_metrics rounds it
CandFails == [kind |-> "fails", mape |-> NaN, raw |-> NaN]
CandFits(raw) == [kind |-> "fits", mape |-> RoundedMape(raw), raw |-> raw]

\* for alpha in [0.1, ..., 0.9] (in tenths)
SesAlphas == <<1, 2, 3, 4, 5, 6, 7, 8, 9>>
DefaultAlpha == 3

\* for seasonal in ['add', 'mul']
HwSeasonals == <<"add", "mul">>
DefaultSeasonal == "additive"
DefaultSeasonalPeriods == 12

ArimaOrders == << <<1, 1, 1>>, <<0, 1, 1>>, <<1, 1, 0>>, <<2, 1, 2>>, <<0, 1, 0>>, <<1, 0, 1>> >>
DefaultOrder == <<1, 1, 1>>

\* a dict of random forest parameters, with the keys it holds; max_depth None is 0
MaxDepthNone == 0
RfParams(n, d) == [keys |-> {"n_estimators", "max_depth"}, n_estimators |-> n, max_depth |-> d]
EmptyDict == [keys |-> {}, n_estimators |-> 0, max_depth |-> 0]

\* for n_estimators in [50, 100]: for max_depth in [None, 5, 10]
RfGrid == << RfParams(50, MaxDepthNone), RfParams(50, 5), RfParams(50, 10),
             RfParams(100, MaxDepthNone), RfParams(100, 5), RfParams(100, 10) >>

\* best_predictions: the empty list it starts as, or the fitted values of candidate j
EmptyList == [kind |-> "list", candidate |-> 0]
FittedValues(j) == [kind |-> "array", candidate |-> j]

ReturnedNone == [state |-> "none"]

\* faulty variant: a candidate replaces the best one when its MAPE is higher
SearchImproves_Higher(m, best_mape) ==
    ~IsNaN(m) /\ (IsInf(best_mape) \/ FloatLt(best_mape, m))

\* if not np.isnan(metrics['mape']) and metrics['mape'] < best_mape
SearchImproves(m, best_mape) == ~IsNaN(m) /\ FloatLt(m, best_mape)

\* the loop over the grid from candidate j on; a candidate whose fit raises is
\* skipped by the bare `except: continue`
RECURSIVE GridSearch(_, _, _, _)
GridSearch(grid, cand, j, best) ==
    IF j > Len(grid) THEN best
    ELSE GridSearch(grid, cand, j + 1,
            IF cand[j].kind = "fits" /\ SearchImproves(cand[j].mape, best.best_mape)
            THEN [best_mape |-> cand[j].mape, best_params |-> grid[j],
                  best_predictions |-> FittedValues(j)]
            ELSE best)

SearchStart(default) ==
    [best_mape |-> PosInf, best_params |-> default, best_predictions |-> EmptyList]

\* faulty variant: with the empty list the defaults are returned with NaN metrics
SearchReturn_Defaults(self, name, best, parameters) ==
    Returned([name |-> name,
              predictions |-> best.best_predictions,
              metrics |-> [mape |-> IF IsInf(best.best_mape) THEN NaN ELSE best.best_mape],
              parameters |-> parameters,
              description |-> self.model_descriptions[name]])

\* metrics = self.calculate_metrics(data, best_predictions); return {...
\* 'predictions': best_predictions.tolist(), ...}: with the empty list it
\* started as, best_predictions does not fit the mask of calculate_metrics and
\* has no tolist(); the exception reaches the outer handler, which returns None
SearchReturn(self, name, best, parameters) ==
    IF best.best_predictions.kind = "list"
    THEN ReturnedNone
    ELSE Returned([name |-> name,
                   predictions |-> best.best_predictions,
                   metrics |-> [mape |-> best.best_mape],
                   parameters |-> parameters,
                   description |-> self.model_descriptions[name]])

ses_model(self, cand) ==
    LET best == GridSearch(SesAlphas, cand, 1, SearchStart(DefaultAlpha))
    IN  SearchReturn(self, models[2], best, [alpha |-> best.best_params])

holt_winters_model(self, cand, sp) ==
    LET best == GridSearch(HwSeasonals, cand, 1, SearchStart(DefaultSeasonal))
    IN  SearchReturn(self, models[3], best,
                     [seasonal |-> best.best_params, seasonal_periods |-> sp])

arima_model(self, cand) ==
    LET best == GridSearch(ArimaOrders, cand, 1, SearchStart(DefaultOrder))
    IN  SearchReturn(self, models[4], best, [order |-> best.best_params])

random_forest_model(self, cand) ==
    LET best == GridSearch(RfGrid, cand, 1, SearchStart(EmptyDict))
    IN  SearchReturn(self, models[6], best, best.best_params)

\* the four fitters by registry name
SearchFamilies == {models[2], models[3], models[4], models[6]}

GridSize(name) ==
    CASE name = models[2] -> Len(SesAlphas)
      [] name = models[3] -> Len(HwSeasonals)
      [] name = models[4] -> Len(ArimaOrders)
      [] name = models[6] -> Len(RfGrid)

SearchFitter(self, name, cand, sp) ==
    CASE name = models[2] -> ses_model(self, cand)
      [] name = models[3] -> holt_winters_model(self, cand, sp)
      [] name = models[4] -> arima_model(self, cand)
      [] name = models[6] -> random_forest_model(self, cand)

\* what run_all_models sees of the call: a truthy dict (with its MAPE) or None
FitterOutcomeOf(o) ==
    IF o.state = "returned" THEN FitterResult(o.value.metrics.mape) ELSE FitterNone

(***************************************************************************)
(* backend/app.py: session cache, /api/upload, /api/process, the           *)
(* background worker run_forecast_models, /api/results                     *)
(***************************************************************************)
NoneValue == [kind |-> "None", list |-> <<>>]
ListValue(l) == [kind |-> "list", list |-> l]

NoError == [present |-> FALSE, msg |-> ""]
ErrorValue(m) == [present |-> TRUE, msg |-> m]

NoSession == -1

\* results_cache[session_id] = {'data': ..., 'status': 'uploaded', 'results': None}
NewSession(d) == [data |-> d, status |-> "uploaded", results |-> NoneValue, error |-> NoError]

Put(cache, id, rec) == [k \in DOMAIN cache \cup {id} |-> IF k = id THEN rec ELSE cache[k]]

HttpResponse(endpoint, code, status, res, err, id) ==
    [endpoint |-> endpoint, code |-> code, status |-> status, results |-> res,
     error |-> err, session_id |-> id]

NoResponse == HttpResponse("", 0, "", NoneValue, "", NoSession)

SessionNotFound(endpoint) ==
    HttpResponse(endpoint, 404, "", NoneValue, "Sesion no encontrada", NoSession)

\* upload_data: the validations of the uploaded frame
UploadError(rows, has_demand) ==
    IF rows < 12 \/ rows > 120 THEN "Se requieren entre 12 y 120 meses de datos"
    ELSE IF ~has_demand THEN "El dataset debe contener una columna demand"
    ELSE ""

\* x[:k]
FirstK(x, k) == IF Len(x) <= k THEN x ELSE SubSeq(x, 1, k)

\* get_results for a session of the cache
ResultsResponse(cache, id) ==
    LET session == cache[id]
    IN  IF session.status = "processing"
        THEN HttpResponse("results", 200, "processing", NoneValue, "", id)
        ELSE IF session.status = "error"
        THEN IF session.error.present
             THEN HttpResponse("results", 200, "error", NoneValue, session.error.msg, id)
             ELSE HttpResponse("results", 500, "", NoneValue, "'error'", id)
        ELSE IF session.results.kind = "None"
        THEN HttpResponse("results", 500, "", NoneValue,
                          "'NoneType' object is not subscriptable", id)
        ELSE HttpResponse("results", 200, "completed",
                          ListValue(FirstK(session.results.list, 10)), "", id)

\* sorted_results[0]['model_name'] in the closing log line: the exception it
\* raises ("" if it raises none)
LogLineError(sorted) ==
    IF Len(sorted) = 0 THEN "list index out of range"
    ELSE IF "model_name" \in DOMAIN sorted[1] THEN ""
    ELSE "'model_name'"

NewThread(id) ==
    [session_id |-> id, pc |-> "run", results |-> <<>>, sorted_results |-> <<>>, exc |-> ""]

(***************************************************************************)
(* Specification of the metric calculator: the arguments are drawn from    *)
(* bounded sets, one action performs the call.                             *)
(***************************************************************************)
ActualValues == {NaN, PosInf, Fin(0), Fin(1), Fin(2)}
PredictedValues == {NaN, PosInf, NegInf, Fin(0), Fin(1), Fin(3)}

SeqsUpTo(S, n) == UNION {[1..k -> S] : k \in 0..n}

MetricsIdle == actual = <<>> /\ predicted = <<>> /\ metrics = Pending

EnsembleIdle ==
    /\ fitted = [n \in ModelNames |-> FitterNone]
    /\ pos = 1
    /\ calls = <<>>
    /\ results = <<>>
    /\ run_state = "idle"
    /\ sorted_results = <<>>

ForecastIdle ==
    /\ model_name = ""
    /\ data = <<>>
    /\ periods = 0
    /\ native_ok = TRUE
    /\ forecast = Pending

AppIdle ==
    /\ now = 0
    /\ results_cache = <<>>
    /\ threads = <<>>
    /\ response = NoResponse

SmaIdle ==
    /\ instance = ForecastModels
    /\ series = <<>>
    /\ window = 0
    /\ history = <<>>

SearchIdle ==
    /\ family = ""
    /\ candidates = <<>>
    /\ seasonal_periods = 0
    /\ fit_outcome = Pending

InitMetrics ==
    /\ EnsembleIdle
    /\ ForecastIdle
    /\ AppIdle
    /\ SmaIdle
    /\ SearchIdle
    /\ actual \in SeqsUpTo(ActualValues, MaxPairs)
    /\ predicted \in [1..Len(actual) -> PredictedValues] \cup {<<>>}
    /\ metrics = Pending

CallCalculateMetrics ==
    /\ metrics = Pending
    /\ metrics' = IF CalculateMetricsRaises(actual, predicted)
                  THEN RaisedOutcome
                  ELSE Returned(calculate_metrics(actual, predicted))
    /\ UNCHANGED <<actual, predicted, ensembleVars, forecastVars, appVars, smaVars, searchVars>>

NextMetrics == CallCalculateMetrics

SpecMetrics == InitMetrics /\ [][NextMetrics]_vars

(***************************************************************************)
(* Specification of the ensemble run and its ranking: the behaviour of the *)
(* six fitters on the series is drawn from FitterOutcomes; run_all_models  *)
(* advances one registry entry per step, then the returned list is ranked. *)
(***************************************************************************)
InitEnsemble ==
    /\ MetricsIdle
    /\ ForecastIdle
    /\ AppIdle
    /\ SmaIdle
    /\ SearchIdle
    /\ fitted \in [ModelNames -> FitterOutcomes]
    /\ pos = 1
    /\ calls = <<>>
    /\ results = <<>>
    /\ run_state = "running"
    /\ sorted_results = <<>>

\* for model_name, model_func in self.models.items(): ...
CallFitter ==
    /\ run_state = "running"
    /\ pos <= Len(models)
    /\ LET it == RunModelIteration(results, models[pos], fitted[models[pos]])
       IN  /\ results' = it.results
           /\ run_state' = IF it.raised THEN "raised" ELSE "running"
    /\ calls' = Append(calls, models[pos])
    /\ pos' = pos + 1
    /\ UNCHANGED <<fitted, sorted_results, metricsVars, forecastVars, appVars, smaVars, searchVars>>

\* return results
ReturnResults ==
    /\ run_state = "running"
    /\ pos > Len(models)
    /\ run_state' = "returned"
    /\ UNCHANGED <<fitted, pos, calls, results, sorted_results, metricsVars, forecastVars, appVars, smaVars, searchVars>>

\* sorted_results = sorted(results, key=...)
RankResults ==
    /\ run_state = "returned"
    /\ sorted_results' = SortedByMape(results)
    /\ run_state' = "ranked"
    /\ UNCHANGED <<fitted, pos, calls, results, metricsVars, forecastVars, appVars, smaVars, searchVars>>

NextEnsemble == CallFitter \/ ReturnResults \/ RankResults

SpecEnsemble == InitEnsemble /\ [][NextEnsemble]_vars

(***************************************************************************)
(* Specification of the forecast generator: family name (known or not),    *)
(* series, horizon and the library's behaviour are drawn from bounded sets, *)
(* one action performs the call.                                           *)
(***************************************************************************)
UnknownModel == "Modelo Inexistente"
Observations == {0, 1, 3}

InitForecast ==
    /\ MetricsIdle
    /\ EnsembleIdle
    /\ AppIdle
    /\ SmaIdle
    /\ SearchIdle
    /\ model_name \in ModelNames \cup {UnknownModel}
    /\ data \in SeqsUpTo(Observations, MaxObs) \ {<<>>}
    /\ periods \in 0..MaxPeriods
    /\ native_ok \in BOOLEAN
    /\ forecast = Pending

CallGenerateForecast ==
    /\ forecast = Pending
    /\ forecast' = LET r == generate_forecast(model_name, data, periods, native_ok)
                   IN  IF r.raised THEN RaisedOutcome ELSE Returned(r)
    /\ UNCHANGED <<model_name, data, periods, native_ok, metricsVars, ensembleVars, appVars, smaVars, searchVars>>

NextForecast == CallGenerateForecast

SpecForecast == InitForecast /\ [][NextForecast]_vars

(***************************************************************************)
(* Specification of the moving-average fitter: the series and the window   *)
(* argument are drawn from bounded sets; sma_model is called on the same   *)
(* object up to MaxCalls times, and generate_forecast is called once for   *)
(* the moving-average family on the same object and array, in any order.   *)
(***************************************************************************)
WindowArgs == {0, 2, DefaultWindow, 5, 13}

InitSma ==
    /\ MetricsIdle
    /\ EnsembleIdle
    /\ AppIdle
    /\ SearchIdle
    /\ instance = ForecastModels
    /\ series \in SeqsUpTo(Observations, MaxSeries)
    /\ window \in WindowArgs
    /\ history = <<>>
    /\ model_name = models[1]
    /\ data = series
    /\ periods = MaxPeriods
    /\ native_ok = TRUE
    /\ forecast = Pending

\* faulty variant: the call consumes the first observation of the array it is given
CallSmaModel_ConsumesSeries ==
    /\ Len(history) < MaxCalls
    /\ history' = Append(history, sma_model(instance, series, window))
    /\ series' = IF series = <<>> THEN series ELSE Tail(series)
    /\ UNCHANGED <<instance, window>>
    /\ UNCHANGED <<metricsVars, ensembleVars, forecastVars, appVars, searchVars>>

\* result = forecast_models.sma_model(data, window)
CallSmaModel ==
    /\ Len(history) < MaxCalls
    /\ history' = Append(history, sma_model(instance, series, window))
    /\ UNCHANGED <<instance, series, window>>
    /\ UNCHANGED <<metricsVars, ensembleVars, forecastVars, appVars, searchVars>>

NextSma == CallSmaModel \/ CallGenerateForecast

SpecSma == InitSma /\ [][NextSma]_vars

(***************************************************************************)
(* Specification of the grid-search fitters: the fitter, what the library  *)
(* does with each of its candidates, and the outcome of the five other     *)
(* fitters are drawn from bounded sets. The fitter is called directly; with *)
(* the default seasonal period run_all_models runs over the registry too.  *)
(***************************************************************************)
\* unrounded MAPE values (in thousandths of a percent): undefined, two that
\* round to 5.00, and 12.000
RawMapeValues == {NaN, Fin(4996), Fin(5004), Fin(12000)}

CandidateOutcomes == {CandFails} \cup {CandFits(raw) : raw \in RawMapeValues}

\* at most MaxFits candidates of the grid fit
CandidateOracles(k) ==
    {c \in [1..k -> CandidateOutcomes] :
        Cardinality({j \in 1..k : c[j].kind = "fits"}) <= MaxFits}

SeasonalPeriodArgs == {4, DefaultSeasonalPeriods}
OtherOutcomes == {FitterNone, FitterRaise, FitterResult(Fin(1200))}

InitSearch ==
    /\ MetricsIdle
    /\ ForecastIdle
    /\ AppIdle
    /\ SmaIdle
    /\ family \in SearchFamilies
    /\ candidates \in CandidateOracles(GridSize(family))
    /\ seasonal_periods \in IF family = models[3] THEN SeasonalPeriodArgs
                            ELSE {DefaultSeasonalPeriods}
    /\ fit_outcome = Pending
    /\ \E other \in OtherOutcomes :
          fitted = [n \in ModelNames |->
                      IF n = family
                      THEN FitterOutcomeOf(SearchFitter(ForecastModels, family, candidates,
                                                        DefaultSeasonalPeriods))
                      ELSE other]
    /\ pos = 1
    /\ calls = <<>>
    /\ results = <<>>
    /\ run_state = IF seasonal_periods = DefaultSeasonalPeriods THEN "running" ELSE "idle"
    /\ sorted_results = <<>>

\* result = forecast_models.<fitter>(data)
CallSearchFitter ==
    /\ fit_outcome = Pending
    /\ fit_outcome' = SearchFitter(instance, family, candidates, seasonal_periods)
    /\ UNCHANGED <<family, candidates, seasonal_periods>>
    /\ UNCHANGED <<metricsVars, ensembleVars, forecastVars, appVars, smaVars>>

NextSearch == CallSearchFitter \/ CallFitter \/ ReturnResults

SpecSearch == InitSearch /\ [][NextSearch]_vars

(***************************************************************************)
(* Specification of the application: uploads, process requests, the        *)
(* statements of the background worker interleaved with the requests, and  *)
(* results requests. `fitted` is what the fitters do on an uploaded series. *)
(***************************************************************************)
UploadRows == {11, 12, 121}

\* in application runs only the first MaxFitted registry entries may return a
\* result; the fitters catch their own exceptions and return None
AppFitted ==
    {f \in [ModelNames -> {FitterNone} \cup {FitterResult(m) : m \in MapeValues}] :
        \A i \in 1..Len(models) : i > MaxFitted => f[models[i]] = FitterNone}

Init ==
    /\ MetricsIdle
    /\ ForecastIdle
    /\ fitted \in AppFitted
    /\ pos = 1
    /\ calls = <<>>
    /\ results = <<>>
    /\ run_state = "idle"
    /\ sorted_results = <<>>
    /\ AppIdle
    /\ SmaIdle
    /\ SearchIdle

appFrame == UNCHANGED <<metricsVars, ensembleVars, forecastVars, smaVars, searchVars>>

\* time passes
Tick ==
    /\ now < MaxClock
    /\ now' = now + 1
    /\ UNCHANGED <<results_cache, threads, response>>
    /\ appFrame

\* POST /api/upload
upload_data ==
    /\ \E rows \in UploadRows, has_demand \in BOOLEAN :
          LET err == UploadError(rows, has_demand)
              session_id == now
          IN  IF err # ""
              THEN /\ response' = HttpResponse("upload", 400, "", NoneValue, err, NoSession)
                   /\ UNCHANGED results_cache
              ELSE /\ results_cache' =
                          Put(results_cache, session_id, NewSession([rows |-> rows]))
                   /\ response' = HttpResponse("upload", 200, "", NoneValue, "", session_id)
    /\ UNCHANGED <<now, threads>>
    /\ appFrame

\* the session ids a request may carry: any timestamp, or none at all (None)
RequestIds == 0..MaxClock \cup {NoSession}

\* POST /api/process; thread.start() raises RuntimeError when the system
\* cannot start another thread, after the status was set
ProcessRequest(session_id) ==
    /\ \E started \in BOOLEAN :
          IF session_id \notin DOMAIN results_cache
          THEN /\ response' = SessionNotFound("process")
               /\ UNCHANGED <<results_cache, threads>>
          ELSE /\ Len(threads) < MaxThreads
               /\ results_cache' = [results_cache EXCEPT ![session_id].status = "processing"]
               /\ IF started
                  THEN /\ threads' = Append(threads, NewThread(session_id))
                       /\ response' = HttpResponse("process", 200, "", NoneValue, "", session_id)
                  ELSE /\ threads' = threads
                       /\ response' = HttpResponse("process", 500, "", NoneValue,
                                                   "can't start new thread", session_id)
    /\ UNCHANGED now
    /\ appFrame

process_models == \E session_id \in RequestIds : ProcessRequest(session_id)

\* run_forecast_models, lines 100-107: read the data, run the models, sort;
\* `raises`: an exception leaves run_all_models (its own handler prints the
\* family name and may raise in turn; the tests replace it by a raising mock)
WorkerRun(t) ==
    /\ threads[t].pc = "run"
    /\ \E raises \in BOOLEAN :
          LET run == run_all_models(fitted)
              failed == raises \/ run.raised
          IN  threads' = [threads EXCEPT
                 ![t].results = IF failed THEN <<>> ELSE run.results,
                 ![t].sorted_results = IF failed THEN <<>> ELSE SortedByMape(run.results),
                 ![t].exc = IF failed THEN "Error en modelo" ELSE "",
                 ![t].pc = IF failed THEN "except_status" ELSE "set_status"]
    /\ UNCHANGED <<now, results_cache, response>>
    /\ appFrame

\* results_cache[session_id]['status'] = 'completed'
WorkerSetStatus(t) ==
    /\ threads[t].pc = "set_status"
    /\ results_cache' = [results_cache EXCEPT ![threads[t].session_id].status = "completed"]
    /\ threads' = [threads EXCEPT ![t].pc = "set_results"]
    /\ UNCHANGED <<now, response>>
    /\ appFrame

\* results_cache[session_id]['results'] = sorted_results
WorkerSetResults(t) ==
    /\ threads[t].pc = "set_results"
    /\ results_cache' = [results_cache EXCEPT
          ![threads[t].session_id].results = ListValue(threads[t].sorted_results)]
    /\ threads' = [threads EXCEPT ![t].pc = "log"]
    /\ UNCHANGED <<now, response>>
    /\ appFrame

\* logger.info(f"... {sorted_results[0]['model_name']} ...")
WorkerLog(t) ==
    /\ threads[t].pc = "log"
    /\ LET err == LogLineError(threads[t].sorted_results)
       IN  threads' = [threads EXCEPT
              ![t].exc = err,
              ![t].pc = IF err = "" THEN "done" ELSE "except_status"]
    /\ UNCHANGED <<now, results_cache, response>>
    /\ appFrame

\* except Exception as e: results_cache[session_id]['status'] = 'error'
WorkerExceptStatus(t) ==
    /\ threads[t].pc = "except_status"
    /\ results_cache' = [results_cache EXCEPT ![threads[t].session_id].status = "error"]
    /\ threads' = [threads EXCEPT ![t].pc = "except_error"]
    /\ UNCHANGED <<now, response>>
    /\ appFrame

\* results_cache[session_id]['error'] = str(e)
WorkerExceptError(t) ==
    /\ threads[t].pc = "except_error"
    /\ results_cache' = [results_cache EXCEPT
          ![threads[t].session_id].error = ErrorValue(threads[t].exc)]
    /\ threads' = [threads EXCEPT ![t].pc = "done"]
    /\ UNCHANGED <<now, response>>
    /\ appFrame

run_forecast_models ==
    \E t \in 1..Len(threads) :
        \/ WorkerRun(t)
        \/ WorkerSetStatus(t)
        \/ WorkerSetResults(t)
        \/ WorkerLog(t)
        \/ WorkerExceptStatus(t)
        \/ WorkerExceptError(t)

\* GET /api/results
ResultsRequest(session_id) ==
    /\ response' = IF session_id \notin DOMAIN results_cache
                   THEN SessionNotFound("results")
                   ELSE ResultsResponse(results_cache, session_id)
    /\ UNCHANGED <<now, results_cache, threads>>
    /\ appFrame

get_results == \E session_id \in RequestIds : ResultsRequest(session_id)

\* POST /api/forecast: 404 for an unknown session; otherwise the forecast of
\* ForecastModels.generate_forecast on the session's data
ForecastRequest_Always200(session_id) ==
    /\ response' = HttpResponse("forecast", 200, "", NoneValue, "", session_id)
    /\ UNCHANGED <<now, results_cache, threads>>
    /\ appFrame

\* `raised`: the core's generate_forecast raised, or returned a value that
\* cannot take the model_info key; the handler answers 500
ForecastRequest(session_id) ==
    /\ \E raised \in BOOLEAN :
          response' = IF session_id \notin DOMAIN results_cache
                      THEN SessionNotFound("forecast")
                      ELSE IF raised
                      THEN HttpResponse("forecast", 500, "", NoneValue, "forecast failed", session_id)
                      ELSE HttpResponse("forecast", 200, "", NoneValue, "", session_id)
    /\ UNCHANGED <<now, results_cache, threads>>
    /\ appFrame

api_generate_forecast == \E session_id \in RequestIds : ForecastRequest(session_id)

Next ==
    \/ Tick
    \/ upload_data
    \/ process_models
    \/ run_forecast_models
    \/ get_results
    \/ api_generate_forecast

Spec == Init /\ [][Next]_vars

\* started workers are scheduled: a worker that has a statement left to run
\* eventually runs it (the fitters terminate)
FairSpec == Spec /\ WF_vars(run_forecast_models)

(***************************************************************************)
(* Claims about the background worker (checked under Spec)                 *)
(***************************************************************************)
\* thread t has run to its end and no other thread worked on its session
RanAlone(t) ==
    /\ threads[t].pc = "done"
    /\ \A u \in 1..Len(threads) : u # t => threads[u].session_id # threads[t].session_id

\* b holds the entries of a, each as often as a does
IsPermutation(a, b) ==
    /\ Len(a) = Len(b)
    /\ \A x \in {a[i] : i \in 1..Len(a)} :
          Cardinality({i \in 1..Len(a) : a[i] = x}) = Cardinality({i \in 1..Len(b) : b[i] = x})

\* lowest MAPE first
AscendingMape(rs) ==
    \A i, j \in 1..Len(rs) :
        (i < j /\ IsFin(rs[i].metrics.mape) /\ IsFin(rs[j].metrics.mape))
            => rs[i].metrics.mape.v <= rs[j].metrics.mape.v

\* C1: after run_forecast_models ran for a session and run_all_models returned
\* a non-empty list, the session's status is 'completed' and its stored
\* results are that list sorted ascending by MAPE.
C1_RunEndsCompletedSorted ==
    \A t \in 1..Len(threads) :
        (RanAlone(t) /\ threads[t].results # <<>>) =>
            LET session == results_cache[threads[t].session_id]
            IN  /\ session.status = "completed"
                /\ session.results.kind = "list"
                /\ IsPermutation(threads[t].results, session.results.list)
                /\ AscendingMape(session.results.list)

\* C3: when run_all_models returns an empty list the run ends with status
\* 'completed' and an empty results list, not in an error, and a results
\* request answers 'completed' with zero results.
C3_EmptyRunEndsCompleted ==
    \A t \in 1..Len(threads) :
        (RanAlone(t) /\ threads[t].results = <<>>) =>
            LET id == threads[t].session_id
                session == results_cache[id]
            IN  /\ session.status = "completed"
                /\ session.results = ListValue(<<>>)
                /\ ~session.error.present
                /\ ResultsResponse(results_cache, id) =
                      HttpResponse("results", 200, "completed", ListValue(<<>>), "", id)

(***************************************************************************)
(* Claims about calculate_metrics (checked under SpecMetrics)              *)
(***************************************************************************)
RECURSIVE SumFn(_, _)
SumFn(f, S) ==
    IF S = {} THEN 0
    ELSE LET i == CHOOSE j \in S : TRUE IN f[i] + SumFn(f, S \ {i})

RECURSIVE ProdFn(_, _)
ProdFn(f, S) ==
    IF S = {} THEN 1
    ELSE LET i == CHOOSE j \in S : TRUE IN f[i] * ProdFn(f, S \ {i})

MetricsReturned == metrics.state = "returned"

\* indices of the pairs in which neither value is NaN
ValidIdx == {i \in 1..Len(actual) : ~IsNaN(actual[i]) /\ ~IsNaN(predicted[i])}
\* valid pairs whose actual value is not zero
NonZeroIdx == {i \in ValidIdx : actual[i].v # 0}

AbsErrAt == [i \in ValidIdx |-> Abs(actual[i].v - predicted[i].v)]
SqErrAt == [i \in ValidIdx |-> AbsErrAt[i] * AbsErrAt[i]]
AbsActualAt == [i \in ValidIdx |-> Abs(actual[i].v)]

\* 100 * mean over the index set S of |a_i - p_i| / |a_i|, in hundredths
MapeOver(S) ==
    LET den == ProdFn(AbsActualAt, S)
        num == SumFn([i \in S |-> AbsErrAt[i] * ProdFn(AbsActualAt, S \ {i})], S)
    IN  Fin(RoundHalfEven(10000 * num, den * Cardinality(S)))

\* C4: MAPE is the mean over the valid pairs with a non-zero actual only, and is
\* undefined only when no such pair remains; mae, mse and rmse stay defined
\* whenever a valid pair exists.
C4_MapeExcludesZeroActuals ==
    MetricsReturned =>
        /\ NonZeroIdx # {} => metrics.value.mape = MapeOver(NonZeroIdx)
        /\ NonZeroIdx = {} => IsNaN(metrics.value.mape)
        /\ ValidIdx # {} => /\ IsFin(metrics.value.mae)
                            /\ IsFin(metrics.value.mse)
                            /\ IsFin(metrics.value.rmse)

\* C5: pairs holding a NaN are dropped, the metrics are those of the remaining
\* pairs, and all four metrics are NaN exactly when no valid pair remains.
C5_NaNPairsDropped ==
    MetricsReturned =>
        LET m == metrics.value
            n == Cardinality(ValidIdx)
        IN  /\ (IsNaN(m.mae) /\ IsNaN(m.mse) /\ IsNaN(m.rmse) /\ IsNaN(m.mape))
                  <=> ValidIdx = {}
            /\ ValidIdx # {} =>
                  /\ m.mae = Fin(RoundHalfEven(100 * SumFn(AbsErrAt, ValidIdx), n))
                  /\ m.mse = Fin(RoundHalfEven(100 * SumFn(SqErrAt, ValidIdx), n))
                  /\ m.rmse = Fin(SqrtHundredths(SumFn(SqErrAt, ValidIdx), n))
                  /\ NonZeroIdx = ValidIdx => m.mape = MapeOver(ValidIdx)

C5_Witness ==
    /\ MetricsReturned
    /\ ValidIdx # {}
    /\ ValidIdx # 1..Len(actual)
    /\ \E i \in 1..Len(actual) : IsNaN(actual[i])
    /\ \E i \in 1..Len(actual) : IsNaN(predicted[i]) /\ ~IsNaN(actual[i])
    /\ IsFin(metrics.value.mape)

\* C6: a pair holding +inf or -inf is filtered out: whenever at least one pair
\* of finite values remains the call returns with a finite mae.
C6_InfinitePairsFiltered ==
    (/\ metrics # Pending
     /\ Len(actual) = Len(predicted)
     /\ \E i \in 1..Len(actual) : IsFin(actual[i]) /\ IsFin(predicted[i]))
        => MetricsReturned /\ IsFin(metrics.value.mae)

NonNegativeOrNaN(x) == IsNaN(x) \/ (IsFin(x) /\ x.v >= 0)

MetricsNonNegative ==
    /\ NonNegativeOrNaN(metrics.value.mae)
    /\ NonNegativeOrNaN(metrics.value.mse)
    /\ NonNegativeOrNaN(metrics.value.rmse)
    /\ NonNegativeOrNaN(metrics.value.mape)

\* C7 as stated: every metric is undefined or >= 0 and the returned rmse is the
\* square root of the returned mse to 2 decimals (|rmse - sqrt(mse)| <= 0.005;
\* in hundredths |R - 10*sqrt(M)| <= 1/2).
C7_RmseIsSqrtOfReturnedMse ==
    MetricsReturned =>
        /\ MetricsNonNegative
        /\ IsFin(metrics.value.mse) =>
              LET R == metrics.value.rmse.v
                  M == metrics.value.mse.v
              IN  /\ IsFin(metrics.value.rmse)
                  /\ 400 * M <= (2 * R + 1) * (2 * R + 1)
                  /\ R = 0 \/ (2 * R - 1) * (2 * R - 1) <= 400 * M

\* C7 amended: every metric is undefined or >= 0, and rmse is the rounded square
\* root of the unrounded mse, so that rmse^2 meets the returned mse only up to
\* the two roundings: |rmse^2 - mse| <= 0.01*rmse + 0.0051
\* (in hundredths |R*R - 100*M| <= R + 51).
C7_RmseSquaredNearMse ==
    MetricsReturned =>
        /\ MetricsNonNegative
        /\ IsFin(metrics.value.mse) =>
              LET R == metrics.value.rmse.v
                  M == metrics.value.mse.v
              IN  /\ IsFin(metrics.value.rmse)
                  /\ Abs(R * R - 100 * M) <= R + 51

C7_Witness ==
    /\ MetricsReturned
    /\ IsFin(metrics.value.mse)
    /\ metrics.value.mse.v > 0
    /\ metrics.value.rmse.v * metrics.value.rmse.v # 100 * metrics.value.mse.v

(***************************************************************************)
(* Claims about run_all_models and the ranking (checked under SpecEnsemble) *)
(***************************************************************************)
\* ascending by MAPE with every NaN after every defined value
RankedNaNLast(rs) ==
    \A i, j \in 1..Len(rs) :
        (i < j /\ IsFin(rs[j].metrics.mape)) =>
            /\ IsFin(rs[i].metrics.mape)
            /\ rs[i].metrics.mape.v <= rs[j].metrics.mape.v

\* C2: the ranking of the ensemble output is ascending by MAPE with every
\* undefined MAPE after all defined ones, for every input order.
C2_RankingNaNLast == run_state = "ranked" => RankedNaNLast(sorted_results)

\* the results the fitters produced, in registry order
ProducedInOrder ==
    LET all == [i \in 1..Len(models) |-> [name |-> models[i], out |-> fitted[models[i]]]]
        ok(e) == e.out.kind = "result"
        kept == SelectSeq(all, ok)
    IN  [i \in 1..Len(kept) |-> FitResult(kept[i].name, kept[i].out.mape)]

\* C8: run_all_models calls the six fitters once each in registry order, never
\* raises, and returns exactly the produced results in that order (0..6
\* entries, no family twice).
C8_RunAllModelsCollects ==
    /\ run_state # "raised"
    /\ calls = SubSeq(models, 1, Len(calls))
    /\ run_state \in {"returned", "ranked"} =>
          /\ calls = models
          /\ results = ProducedInOrder
          /\ Len(results) <= 6
          /\ \A i, j \in 1..Len(results) : i # j => results[i].name # results[j].name

C8_Witness ==
    /\ run_state = "returned"
    /\ \E n \in ModelNames : fitted[n].kind = "raise"
    /\ \E n \in ModelNames : fitted[n].kind = "none"
    /\ Len(results) = 3

(***************************************************************************)
(* Claims about generate_forecast (checked under SpecForecast)             *)
(***************************************************************************)
\* C9: for every family name, series and horizon >= 0 the call returns (never
\* raises) a forecast of exactly `horizon` entries, also when the library's
\* re-fit or forecast fails.
C9_ForecastHasHorizonEntries ==
    forecast # Pending =>
        /\ forecast.state = "returned"
        /\ Len(forecast.value.forecast) = periods
        /\ forecast.value.periods = periods

C9_Witness ==
    /\ forecast.state = "returned"
    /\ model_name \in ModelNames
    /\ ~native_ok
    /\ forecast.value.error
    /\ periods = MaxPeriods
    /\ Len(forecast.value.forecast) = periods

\* x is the mean of the series xs
IsMeanOf(x, xs) == x.tag = "mean" /\ x.sum * Len(xs) = SumSeq(xs) * x.n

\* C10: for a family name outside the registry the call returns `horizon`
\* copies of the mean of the series and the result carries the failure reason
\* (an error field).
C10_UnknownFamilyFallbackWithReason ==
    (forecast # Pending /\ model_name \notin ModelNames) =>
        /\ forecast.state = "returned"
        /\ Len(forecast.value.forecast) = periods
        /\ \A i \in 1..periods : IsMeanOf(forecast.value.forecast[i], data)
        /\ forecast.value.error

(***************************************************************************)
(* Claims about the moving-average family (SpecForecast, SpecSma)          *)
(***************************************************************************)
\* C11: generate_forecast for the moving-average family projects, for every
\* period, the mean of the last w observations, w being the window sma_model
\* selects for the same series.
C11_SmaForecastUsesSelectedWindow ==
    (forecast # Pending /\ model_name = models[1]) =>
        /\ forecast.state = "returned"
        /\ LET w == sma_model(ForecastModels, data, DefaultWindow).parameters.window
           IN  \A i \in 1..periods :
                  IsMeanOf(forecast.value.forecast[i], LastValues(data, w))

\* the MAPE calculate_metrics gives the predictions of window w on the series
MapeOfWindow(w) == MetricsOfPredictions(series, WindowPredictions(series, w)).mape

\* the windows of the searched range whose MAPE is defined
DefinedWindows == {w \in WindowMin..WindowMax : ~IsNaN(MapeOfWindow(w))}

C13_SmaWindowInSearchedRange ==
    \A c \in 1..Len(history) :
        history[c].parameters.window \in WindowMin..WindowMax

UsableCandidates ==
    {j \in 1..Len(candidates) : candidates[j].kind = "fits" /\ IsFin(candidates[j].mape)}

\* C15: when no alpha of the grid gives a fit with a defined MAPE, ses_model
\* still returns a result, and the alpha it reports is the default 0.3.
C15_SesFallsBackToDefaultAlpha ==
    (family = models[2] /\ fit_outcome # Pending /\ UsableCandidates = {}) =>
        /\ fit_outcome.state = "returned"
        /\ fit_outcome.value.parameters.alpha = DefaultAlpha

\* C16: when none of the six orders converges, arima_model returns a result
\* with the default order (1,1,1) and undefined metrics, rather than
\* returning nothing or raising.
C16_ArimaFallsBackToDefaultOrder ==
    (/\ family = models[4]
     /\ fit_outcome # Pending
     /\ \A j \in 1..Len(candidates) : candidates[j].kind = "fails") =>
        /\ fit_outcome.state = "returned"
        /\ fit_outcome.value.parameters.order = DefaultOrder
        /\ IsNaN(fit_outcome.value.metrics.mape)

\* C17: when run_all_models has returned: a family whose search had no
\* candidate with a defined MAPE, and any family whose fitter raised, is absent
\* from the returned list, and every other family that produced a result is in it.
C17_FailedFamilyAbsentOthersReturned ==
    run_state \in {"returned", "raised"} =>
        /\ run_state = "returned"
        /\ UsableCandidates = {} => \A i \in 1..Len(results) : results[i].name # family
        /\ \A n \in ModelNames :
              fitted[n].kind = "raise" => \A i \in 1..Len(results) : results[i].name # n
        /\ \A n \in ModelNames \ {family} :
              fitted[n].kind = "result" =>
                  \E i \in 1..Len(results) : results[i] = FitResult(n, fitted[n].mape)

\* the triple-smoothing search fitted a form, but with an undefined MAPE; the
\* run returned the five other families
C17_Witness ==
    /\ run_state = "returned"
    /\ family = models[3]
    /\ UsableCandidates = {}
    /\ \E j \in 1..Len(candidates) : candidates[j].kind = "fits"
    /\ Len(results) = Len(models) - 1

\* the parameters a fitter of the given registry name reports for candidate j
ParametersOf(name, j, sp) ==
    CASE name = models[2] -> [alpha |-> SesAlphas[j]]
      [] name = models[3] -> [seasonal |-> HwSeasonals[j], seasonal_periods |-> sp]
      [] name = models[4] -> [order |-> ArimaOrders[j]]
      [] name = models[6] -> RfGrid[j]

\* C18: whenever one of the four grid-search fitters returns a result, the
\* reported hyperparameters (and MAPE) are those of a candidate of its grid that
\* fitted with a defined MAPE, the lowest among the candidates that fitted; the
\* seasonal period is the one supplied.
C18_ReportsBestFittedCandidate ==
    (fit_outcome # Pending /\ fit_outcome.state = "returned") =>
        \E j \in UsableCandidates :
            /\ \A k \in UsableCandidates : candidates[j].mape.v <= candidates[k].mape.v
            /\ fit_outcome.value.parameters = ParametersOf(family, j, seasonal_periods)
            /\ fit_outcome.value.metrics.mape = candidates[j].mape
            /\ fit_outcome.value.name = family

\* the first candidate failed, a later one is reported, and another candidate
\* that fitted has a higher MAPE
C18_Witness ==
    /\ fit_outcome # Pending
    /\ fit_outcome.state = "returned"
    /\ candidates[1].kind = "fails"
    /\ \E j, k \in UsableCandidates :
          /\ fit_outcome.value.parameters = ParametersOf(family, j, seasonal_periods)
          /\ candidates[j].mape.v < candidates[k].mape.v
          /\ k < j

AnswersAsStated(session, resp, id) ==
    IF session.status = "processing"
    THEN resp = HttpResponse("results", 200, "processing", NoneValue, "", id)
    ELSE IF session.status = "error"
    THEN /\ session.error.present
         /\ resp = HttpResponse("results", 200, "error", NoneValue, session.error.msg, id)
    ELSE /\ resp.code = 200
         /\ resp.status = "completed"
         /\ session.results.kind = "list"
         /\ resp.results.kind = "list"
         /\ Len(resp.results.list) <= 10
         /\ Len(resp.results.list) = Len(session.results.list) \/ Len(resp.results.list) = 10
         /\ resp.results.list = SubSeq(session.results.list, 1, Len(resp.results.list))

\* C20: a results request for an existing session answers 'processing' alone
\* while the status is 'processing', 'error' with the stored message when it
\* is 'error', otherwise 'completed' with at most the first 10 stored results
\* in stored order; the session records are left as they were.
C20_ResultsRequestAnswers ==
    [][get_results =>
          /\ results_cache' = results_cache
          /\ \A id \in DOMAIN results_cache :
                response'.session_id = id =>
                    AnswersAsStated(results_cache[id], response', id)]_vars

(***************************************************************************)
(* Claims about the application: worker, uploads, requests (under Spec)    *)
(***************************************************************************)
\* worker t leaves its exception handler in this step, the handled exception
\* being the one that left run_all_models
EndsHandlingRunError(t) ==
    /\ threads[t].pc = "except_error"
    /\ threads[t].exc = "Error en modelo"
    /\ threads'[t].pc = "done"

\* C21: when run_all_models raised in the background processing of a session,
\* the processing ends with the session in status 'error', its error field
\* holding the message of the exception, and its uploaded data unchanged.
C21_RunErrorEndsInErrorStatus ==
    [][\A t \in 1..Len(threads) :
          EndsHandlingRunError(t) =>
              LET id == threads[t].session_id
              IN  /\ results_cache'[id].status = "error"
                  /\ results_cache'[id].error = ErrorValue("Error en modelo")
                  /\ results_cache'[id].data = results_cache[id].data]_vars

\* C22: an upload with fewer than 12 or more than 120 rows, or without a
\* 'demand' column, is answered 400 and leaves the cache unchanged; any other
\* upload adds exactly one new session, with status 'uploaded' and results
\* unset, and changes no other session.
C22_UploadValidatesAndAddsOneSession ==
    [][upload_data =>
          /\ \A rows \in UploadRows, has_demand \in BOOLEAN :
                (UploadError(rows, has_demand) # "")
                    <=> (rows < 12 \/ rows > 120 \/ ~has_demand)
          /\ IF response'.code = 400
             THEN results_cache' = results_cache
             ELSE /\ response'.code = 200
                  /\ \E id \in DOMAIN results_cache' \ DOMAIN results_cache :
                        /\ DOMAIN results_cache' = DOMAIN results_cache \cup {id}
                        /\ results_cache'[id].status = "uploaded"
                        /\ results_cache'[id].results = NoneValue
                        /\ \A other \in DOMAIN results_cache :
                              results_cache'[other] = results_cache[other]]_vars

C24_UploadIdsAreFresh ==
    [][(upload_data /\ response'.code = 200) =>
          response'.session_id \notin DOMAIN results_cache]_vars

\* C25: a status is never visible before the payload it announces: a session
\* seen with status 'completed' has its results set to a list, and one seen
\* with status 'error' has its error message.
C25_StatusNeverBeforePayload ==
    \A id \in DOMAIN results_cache :
        /\ results_cache[id].status = "completed" => results_cache[id].results.kind = "list"
        /\ results_cache[id].status = "error" => results_cache[id].error.present

\* C26: with workers scheduled fairly, every session put into status
\* 'processing' eventually has status 'completed' or 'error'.
C26_ProcessingEventuallyEnds ==
    \A id \in 0..MaxClock :
        (id \in DOMAIN results_cache /\ results_cache[id].status = "processing")
            ~> (id \in DOMAIN results_cache
                   /\ results_cache[id].status \in {"completed", "error"})

\* C27: a process request for a session of the cache that is answered with an
\* error leaves the status and the results of the session as they were.
C27_FailedProcessLeavesSession ==
    [][\A id \in DOMAIN results_cache :
          (ProcessRequest(id) /\ response'.code >= 400) =>
              /\ results_cache'[id].status = results_cache[id].status
              /\ results_cache'[id].results = results_cache[id].results]_vars

\* the session has been reported as finished by a worker other than t: that
\* worker has ended and the session shows a status with its payload
ReportedFinishedByOther(t) ==
    LET id == threads[t].session_id
    IN  /\ \E u \in 1..Len(threads) :
              u # t /\ threads[u].session_id = id /\ threads[u].pc = "done"
        /\ \/ results_cache[id].status = "completed" /\ results_cache[id].results.kind = "list"
           \/ results_cache[id].status = "error" /\ results_cache[id].error.present

\* C28: a later worker never overwrites the status or the results of a
\* session already reported as finished (status 'completed' or 'error'), for
\* process requests of the same session issued in sequence or overlapping.
C28_FinishedSessionNotOverwritten ==
    [][\A t \in 1..Len(threads) :
          (threads'[t] # threads[t] /\ ReportedFinishedByOther(t)) =>
              LET id == threads[t].session_id
              IN  /\ results_cache'[id].status = results_cache[id].status
                  /\ results_cache'[id].results = results_cache[id].results]_vars

\* C29: a results request for a session of the cache is answered 200 with
\* one of the statuses 'processing', 'completed', 'error', in every state of
\* the session, an uploaded and never processed one included.
C29_ResultsRequestAlways200 ==
    [][\A id \in DOMAIN results_cache :
          ResultsRequest(id) =>
              /\ response'.code = 200
              /\ response'.status \in {"processing", "completed", "error"}]_vars

(***************************************************************************)
(* Rounding and the comparison of the grid searches (under SpecSearch)     *)
(***************************************************************************)
\* the MAPE of candidate j rounded to 2 decimals, in hundredths
RoundedMapeOf(j) == RoundHalfEven(candidates[j].raw.v, 10)

\* the candidates a search can take: the fit succeeded and the MAPE is defined
ComparedCandidates ==
    {j \in 1..Len(candidates) : candidates[j].kind = "fits" /\ IsFin(candidates[j].raw)}

\* C30: a grid search compares the candidates on their MAPE rounded to 2
\* decimals with a strict less-than: the candidate it reports is the earliest
\* in scan order among those with the minimal rounded MAPE, and a later
\* candidate whose unrounded MAPE is strictly lower but rounds to the same
\* value is not the one reported.
C30_EarliestOfMinimalRoundedMape ==
    (fit_outcome # Pending /\ fit_outcome.state = "returned") =>
        \E j \in ComparedCandidates :
            /\ \A k \in ComparedCandidates :
                  /\ RoundedMapeOf(j) <= RoundedMapeOf(k)
                  /\ RoundedMapeOf(j) = RoundedMapeOf(k) => j <= k
            /\ fit_outcome.value.predictions = FittedValues(j)
            /\ fit_outcome.value.parameters = ParametersOf(family, j, seasonal_periods)
            /\ fit_outcome.value.metrics.mape = Fin(RoundedMapeOf(j))
            /\ \A k \in ComparedCandidates :
                  (k > j /\ candidates[k].raw.v < candidates[j].raw.v) =>
                      fit_outcome.value.predictions # FittedValues(k)

\* a search returned an earlier candidate although a later one has a strictly
\* lower unrounded MAPE that rounds to the same value
C30_Witness ==
    /\ fit_outcome # Pending
    /\ fit_outcome.state = "returned"
    /\ \E j, k \in ComparedCandidates :
          /\ j < k
          /\ candidates[k].raw.v < candidates[j].raw.v
          /\ RoundedMapeOf(j) = RoundedMapeOf(k)
          /\ fit_outcome.value.predictions = FittedValues(j)

====
